---- MODULE Spec2Model ----
(***************************************************************************)
(* The harvesting session of src/components/LUD16Harvester.tsx: the React  *)
(* component's state and refs, its three handlers (startHarvesting,        *)
(* processEvent, stopHarvesting), its timers, and the relay pool it talks  *)
(* to.  Strings the code inspects character by character (the relay text,  *)
(* the lud16 values) are sequences of one-character strings.               *)
(***************************************************************************)
EXTENDS Integers, Sequences, FiniteSets, TLC

\* ------------------------------------------------------------------ constants
MAX_ADDRESSES == 21
TIMEOUT_MS == 45000
GRACE_MS == 2000

\* ------------------------------------------------------------------ bounds
\* How far the clock moves in one Advance step (ms).
ClockStep == 22500
\* Number of distinct well-formed addresses the relays can send.
NumAddresses == 22
\* Grace timers that may be pending at once (each successful start arms one).
MaxGrace == 2
\* Closed subscriptions that may still be handing over events at once.
MaxLateSubs == 1
\* Longest lud16 string tried on processEvent (characters).
MaxLud16Len == 5
\* Longest relay text tried on parseRelays (prefixes and single characters).
MaxRelayAtoms == 4

\* ------------------------------------------------------------------ values
\* A nullable ref or state: <<>> is null, <<v>> holds v.
Null == <<>>
Some(v) == <<v>>

Min(a, b) == IF a < b THEN a ELSE b
Max(a, b) == IF a > b THEN a ELSE b

WhiteSpace == {" ", "\t", "\n", "\r"}

RECURSIVE Join(_, _)
Join(parts, sep) ==
  IF Len(parts) = 0 THEN <<>>
  ELSE IF Len(parts) = 1 THEN parts[1]
  ELSE parts[1] \o sep \o Join(Tail(parts), sep)

WssPrefix == <<"w", "s", "s", ":", "/", "/">>

DEFAULT_RELAYS ==
  Join(<< <<"w", "s", "s", ":", "/", "/", "r", "e", "l", "a", "y", ".", "d", "a", "m", "u", "s", ".", "i", "o">>,
          <<"w", "s", "s", ":", "/", "/", "r", "e", "l", "a", "y", ".", "p", "r", "i", "m", "a", "l", ".", "n", "e", "t">>,
          <<"w", "s", "s", ":", "/", "/", "n", "o", "s", ".", "l", "o", "l">>,
          <<"w", "s", "s", ":", "/", "/", "r", "e", "l", "a", "y", ".", "n", "o", "s", "t", "r", ".", "b", "a", "n", "d">>,
          <<"w", "s", "s", ":", "/", "/", "n", "o", "s", "t", "r", ".", "w", "i", "n", "e">> >>,
       <<"\n">>)

\* ------------------------------------------------------------------ parseRelays
\* input.split(/[\n,]/): the pieces between the separators, one more piece
\* than there are separators (the empty text gives one empty piece).
SplitRelays(input) ==
  LET seps == {i \in 1..Len(input) : input[i] \in {"\n", ","}}
      \* position of the k-th separator; 0 before the first, Len+1 after the last
      SepAt(k) == IF k = 0 THEN 0
                  ELSE IF k > Cardinality(seps) THEN Len(input) + 1
                  ELSE CHOOSE p \in seps : Cardinality({q \in seps : q < p}) = k - 1
  IN [k \in 1..(Cardinality(seps) + 1) |->
        SubSeq(input, SepAt(k - 1) + 1, SepAt(k) - 1)]

\* url.trim(): without the whitespace at both ends.
Trim(s) ==
  LET inked == {i \in 1..Len(s) : s[i] \notin WhiteSpace}
  IN IF inked = {} THEN <<>>
     ELSE SubSeq(s, CHOOSE i \in inked : \A j \in inked : i <= j,
                    CHOOSE i \in inked : \A j \in inked : i >= j)

StartsWith(s, prefix) ==
  /\ Len(s) >= Len(prefix)
  /\ SubSeq(s, 1, Len(prefix)) = prefix

KeepsRelay(url) == Len(url) > 0 /\ StartsWith(url, WssPrefix)

\* parseRelays without its map(url => url.trim()).
parseRelays_noTrim(input) ==
  SelectSeq(SplitRelays(input), KeepsRelay)

parseRelays(input) ==
  LET pieces == SplitRelays(input)
      trimmed == [i \in 1..Len(pieces) |-> Trim(pieces[i])]
  IN SelectSeq(trimmed, KeepsRelay)

\* ------------------------------------------------------------------ isValidLud16
\* The pattern with [^@\s]*\.[^@\s]* after the "@".
MatchesLud16Regex_anyDot(s) ==
  /\ \A i \in 1..Len(s) : s[i] \notin WhiteSpace
  /\ Cardinality({i \in 1..Len(s) : s[i] = "@"}) = 1
  /\ LET at == CHOOSE i \in 1..Len(s) : s[i] = "@"
     IN /\ at > 1
        /\ \E d \in (at + 1)..Len(s) : s[d] = "."

\* LUD16_REGEX = /^[^@\s]+@[^@\s]+\.[^@\s]+$/ : no whitespace, exactly one "@",
\* something before it, and after it a "." with something on both sides.
MatchesLud16Regex(s) ==
  /\ \A i \in 1..Len(s) : s[i] \notin WhiteSpace
  /\ Cardinality({i \in 1..Len(s) : s[i] = "@"}) = 1
  /\ LET at == CHOOSE i \in 1..Len(s) : s[i] = "@"
     IN /\ at > 1
        /\ \E d \in (at + 2)..(Len(s) - 1) : s[d] = "."

\* A JavaScript value read from metadata.lud16.
StringValue(s) == [type |-> "string", str |-> s]
NumberValue == [type |-> "number", str |-> <<>>]
Undefined == [type |-> "undefined", str |-> <<>>]

isValidLud16(value) == value.type = "string" /\ MatchesLud16Regex(value.str)

\* ------------------------------------------------------------------ status texts
ReadyMsg == <<"Ready to start">>
StoppedMsg == <<"Stopped">>
StartingMsg == <<"Starting...">>
NoRelaysMsg == <<"Error: No valid relay URLs provided">>
TimeoutMsg == <<"Timeout reached">>
ListeningMsg(n) == <<"Listening to ", ToString(n), " relay(s)...">>
ErrorMsg(thrown) ==
  <<"Error: ", IF thrown.isError THEN thrown.message ELSE "Unknown error">>

\* ------------------------------------------------------------------ inputs
\* Texts the user can put in the textarea.
AltRelays ==
  <<" ", "w", "s", "s", ":", "/", "/", "a", ".", "e", "x", "a", "m", "p", "l", "e", " ", ",",
    "h", "t", "t", "p", ":", "/", "/", "b", ".", "e", "x", "a", "m", "p", "l", "e", "\n",
    "w", "s", "s", ":", "/", "/", "c", ".", "e", "x", "a", "m", "p", "l", "e">>
EmptyRelays == <<>>
RelayTexts == {DEFAULT_RELAYS, AltRelays, EmptyRelays}

\* What pool.subscribeMany can throw: an Error with a message, or another value.
Thrown == {[isError |-> TRUE, message |-> "connection failed"],
           [isError |-> FALSE, message |-> ""]}

\* The k-th distinct well-formed address (k < 100): "01@b.c", "02@b.c", ...
Digit(d) == <<"0", "1", "2", "3", "4", "5", "6", "7", "8", "9">>[d + 1]
Addr(k) == <<Digit(k \div 10), Digit(k % 10), "@", "b", ".", "c">>

MalformedLud16 ==
  { <<"n", "o", "t", "-", "a", "n", "-", "a", "d", "d", "r", "e", "s", "s">>,
    <<"a", "@", "b">>,
    <<"a", " ", "b", "@", "c", ".", "d">>,
    <<"a", "@", "b", ".">> }

\* event.content after JSON.parse: a parse error, null, or an object whose lud16
\* field is absent, a number or a string.
ParseError == [json |-> "error", lud16 |-> Undefined]
JsonNull == [json |-> "null", lud16 |-> Undefined]
JsonObject(v) == [json |-> "object", lud16 |-> v]

DiscardedEvents ==
  {ParseError, JsonNull, JsonObject(Undefined), JsonObject(NumberValue)}
    \cup {JsonObject(StringValue(s)) : s \in MalformedLud16}

\* ------------------------------------------------------------------ state
VARIABLES
  relayInput,      \* useState: the textarea's text
  isRunning,       \* useState
  foundAddresses,  \* useState: addresses in discovery order
  relayStatuses,   \* useState: [url, status] per relay
  statusMessage,   \* useState
  timeRemaining,   \* useState: Null or seconds
  poolRef,         \* useRef: Null or the pool of the last successful parse
  addressSetRef,   \* useRef: Set of addresses
  timeoutIdRef,    \* useRef: Null or the armed one-shot timeout: [input: the
                   \* relayInput its callback closed over, left: ms until due]
  intervalIdRef,   \* useRef: Null or the armed repeating timer
  subIdRef,        \* useRef: Null or 'active'
  startTimeRef,    \* useRef: Null or the start timestamp, held as its age:
                   \* Date.now() minus the timestamp (ms)
  mounted,         \* the component is mounted
  graceTimers,     \* pending 2 s timers: ms left, in arming order
  liveSubs,        \* the pool library's subscriptions that can still deliver:
                   \* [input: the relayInput their callbacks closed over (the
                   \*  list given to subscribeMany is parseRelays(input)),
                   \*  state: "open", or "closing" after pool.close]
  sentEvent        \* Null, or one event a relay has sent on the subscription:
                   \* [event, handled: onevent has been called with it].
                   \* Null where Deliver stands for sending and handling.

vars == <<relayInput, isRunning, foundAddresses, relayStatuses, statusMessage,
          timeRemaining, poolRef, addressSetRef, timeoutIdRef, intervalIdRef,
          subIdRef, startTimeRef, mounted, graceTimers, liveSubs, sentEvent>>

\* The state a handler reads and writes, as one record.
Session ==
  [isRunning |-> isRunning, foundAddresses |-> foundAddresses,
   relayStatuses |-> relayStatuses, statusMessage |-> statusMessage,
   timeRemaining |-> timeRemaining, poolRef |-> poolRef,
   addressSetRef |-> addressSetRef, timeoutIdRef |-> timeoutIdRef,
   intervalIdRef |-> intervalIdRef, subIdRef |-> subIdRef,
   startTimeRef |-> startTimeRef, graceTimers |-> graceTimers,
   liveSubs |-> liveSubs]

\* The handler's result becomes the next state.
Commit(st) ==
  /\ isRunning' = st.isRunning
  /\ foundAddresses' = st.foundAddresses
  /\ relayStatuses' = st.relayStatuses
  /\ statusMessage' = st.statusMessage
  /\ timeRemaining' = st.timeRemaining
  /\ poolRef' = st.poolRef
  /\ addressSetRef' = st.addressSetRef
  /\ timeoutIdRef' = st.timeoutIdRef
  /\ intervalIdRef' = st.intervalIdRef
  /\ subIdRef' = st.subIdRef
  /\ startTimeRef' = st.startTimeRef
  /\ graceTimers' = st.graceTimers
  /\ liveSubs' = st.liveSubs

Init ==
  /\ relayInput = DEFAULT_RELAYS
  /\ isRunning = FALSE
  /\ foundAddresses = <<>>
  /\ relayStatuses = <<>>
  /\ statusMessage = ReadyMsg
  /\ timeRemaining = Null
  /\ poolRef = Null
  /\ addressSetRef = {}
  /\ timeoutIdRef = Null
  /\ intervalIdRef = Null
  /\ subIdRef = Null
  /\ startTimeRef = Null
  /\ mounted = TRUE
  /\ graceTimers = <<>>
  /\ liveSubs = {}
  /\ sentEvent = Null

\* ------------------------------------------------------------------ stopHarvesting
\* pool.close(relays), seen from the library: the open subscription starts
\* closing.  Events it already holds can still reach the callback, unless
\* MaxLateSubs closed subscriptions are doing that already.
ClosePool(subs, relays) ==
  LET closing == {s \in subs : s.state = "closing"}
      closed == {[s EXCEPT !.state = "closing"] : s \in subs \ closing}
  IN IF Cardinality(closing) < MaxLateSubs THEN closing \cup closed ELSE closing

\* stopHarvesting without its clearInterval branch.
stopHarvesting_keepsInterval(st, input) ==
  LET closes == st.poolRef # Null /\ st.subIdRef # Null
  IN [st EXCEPT !.isRunning = FALSE,
                !.statusMessage = StoppedMsg,
                !.timeoutIdRef = Null,
                !.liveSubs = IF closes THEN ClosePool(@, parseRelays(input)) ELSE @,
                !.poolRef = IF closes THEN Null ELSE @,
                !.subIdRef = IF closes THEN Null ELSE @,
                !.startTimeRef = Null,
                !.timeRemaining = Null]

\* input is the relayInput of the render whose closure is running.
stopHarvesting(st, input) ==
  LET closes == st.poolRef # Null /\ st.subIdRef # Null
  IN [st EXCEPT !.isRunning = FALSE,
                !.statusMessage = StoppedMsg,
                !.timeoutIdRef = Null,
                !.intervalIdRef = Null,
                !.liveSubs = IF closes THEN ClosePool(@, parseRelays(input)) ELSE @,
                !.poolRef = IF closes THEN Null ELSE @,
                !.subIdRef = IF closes THEN Null ELSE @,
                !.startTimeRef = Null,
                !.timeRemaining = Null]

\* ------------------------------------------------------------------ processEvent
\* processEvent without its addressSetRef.current.has(lud16) return.
processEvent_noDedup(st, event, input) ==
  IF event.json # "object" THEN st
  ELSE IF ~isValidLud16(event.lud16) THEN st
  ELSE LET added == [st EXCEPT !.addressSetRef = @ \cup {event.lud16.str},
                              !.foundAddresses = Append(@, event.lud16.str)]
       IN IF Cardinality(added.addressSetRef) >= MAX_ADDRESSES
          THEN stopHarvesting(added, input)
          ELSE added

\* processEvent putting the new address first.
processEvent_prepends(st, event, input) ==
  IF event.json # "object" THEN st
  ELSE IF ~isValidLud16(event.lud16) THEN st
  ELSE IF event.lud16.str \in st.addressSetRef THEN st
  ELSE LET added == [st EXCEPT !.addressSetRef = @ \cup {event.lud16.str},
                              !.foundAddresses = <<event.lud16.str>> \o @]
       IN IF Cardinality(added.addressSetRef) >= MAX_ADDRESSES
          THEN stopHarvesting(added, input)
          ELSE added

\* processEvent ending the run on a content that does not parse.
processEvent_stopsOnParseError(st, event, input) ==
  IF event.json # "object" THEN stopHarvesting(st, input)
  ELSE IF ~isValidLud16(event.lud16) THEN st
  ELSE IF event.lud16.str \in st.addressSetRef THEN st
  ELSE LET added == [st EXCEPT !.addressSetRef = @ \cup {event.lud16.str},
                              !.foundAddresses = Append(@, event.lud16.str)]
       IN IF Cardinality(added.addressSetRef) >= MAX_ADDRESSES
          THEN stopHarvesting(added, input)
          ELSE added

\* JSON.parse throwing, and null.lud16 throwing, both land in the empty catch.
processEvent(st, event, input) ==
  IF event.json # "object" THEN st
  ELSE IF ~isValidLud16(event.lud16) THEN st
  ELSE IF event.lud16.str \in st.addressSetRef THEN st
  ELSE LET added == [st EXCEPT !.addressSetRef = @ \cup {event.lud16.str},
                              !.foundAddresses = Append(@, event.lud16.str)]
       IN IF Cardinality(added.addressSetRef) >= MAX_ADDRESSES
          THEN stopHarvesting(added, input)
          ELSE added

\* ------------------------------------------------------------------ startHarvesting
\* The status rows, each shown as connected from the start.
Connecting_connected(relays) ==
  [i \in 1..Len(relays) |-> [url |-> relays[i], status |-> "connected"]]

Connecting(relays) ==
  [i \in 1..Len(relays) |-> [url |-> relays[i], status |-> "connecting"]]

\* What pool.subscribeMany(relays, ...) opens, with the onevent closure of
\* the render that read this relayInput.
NewSubscription(input) == [input |-> input, state |-> "open"]

\* The early return without its setIsRunning(false).
noValidRelays_keepsRunning(reset) ==
  [reset EXCEPT !.statusMessage = NoRelaysMsg]

\* The relays.length === 0 branch: the message, not running, return.
noValidRelays(reset) ==
  [reset EXCEPT !.statusMessage = NoRelaysMsg, !.isRunning = FALSE]

\* startHarvesting without its setFoundAddresses([]).
startHarvesting_keepsSequence(st, input, thrown) ==
  LET relays == parseRelays(input)
      reset == [st EXCEPT !.addressSetRef = {},
                          !.relayStatuses = <<>>,
                          !.isRunning = TRUE,
                          !.statusMessage = StartingMsg,
                          !.startTimeRef = Some(0)]
  IN IF Len(relays) = 0
     THEN noValidRelays(reset)
     ELSE LET armed == [reset EXCEPT !.relayStatuses = Connecting(relays),
                                     !.poolRef = Some("SimplePool"),
                                     !.timeoutIdRef = Some([input |-> input, left |-> TIMEOUT_MS]),
                                     !.intervalIdRef = Some("interval"),
                                     !.statusMessage = ListeningMsg(Len(relays))]
          IN IF thrown = Null
             THEN [armed EXCEPT !.liveSubs = @ \cup {NewSubscription(input)},
                                !.subIdRef = Some("active"),
                                !.graceTimers = Append(@, GRACE_MS)]
             ELSE stopHarvesting([armed EXCEPT !.statusMessage = ErrorMsg(thrown[1])],
                                 input)

\* thrown is Null when pool.subscribeMany returns, Some(t) when it throws t.
startHarvesting(st, input, thrown) ==
  LET relays == parseRelays(input)
      reset == [st EXCEPT !.addressSetRef = {},
                          !.foundAddresses = <<>>,
                          !.relayStatuses = <<>>,
                          !.isRunning = TRUE,
                          !.statusMessage = StartingMsg,
                          !.startTimeRef = Some(0)]
  IN IF Len(relays) = 0
     THEN noValidRelays(reset)
     ELSE LET armed == [reset EXCEPT !.relayStatuses = Connecting(relays),
                                     !.poolRef = Some("SimplePool"),
                                     !.timeoutIdRef = Some([input |-> input, left |-> TIMEOUT_MS]),
                                     !.intervalIdRef = Some("interval"),
                                     !.statusMessage = ListeningMsg(Len(relays))]
          IN IF thrown = Null
             THEN [armed EXCEPT !.liveSubs = @ \cup {NewSubscription(input)},
                                !.subIdRef = Some("active"),
                                !.graceTimers = Append(@, GRACE_MS)]
             ELSE stopHarvesting([armed EXCEPT !.statusMessage = ErrorMsg(thrown[1])],
                                 input)

\* ------------------------------------------------------------------ timer callbacks
\* The timeout's callback without its stopHarvesting() call.
timeoutCallback_noStop(st, input) ==
  [st EXCEPT !.statusMessage = TimeoutMsg]

\* The one-shot timeout's callback.
timeoutCallback(st, input) ==
  stopHarvesting([st EXCEPT !.statusMessage = TimeoutMsg], input)

\* Math.ceil(remaining / 1000)
CeilSeconds(ms) == (ms + 999) \div 1000

\* The repeating timer's callback.
intervalCallback(st) ==
  IF st.startTimeRef = Null THEN st
  ELSE LET elapsed == st.startTimeRef[1]
           remaining == Max(0, TIMEOUT_MS - elapsed)
       IN [st EXCEPT !.timeRemaining = Some(CeilSeconds(remaining)),
                     !.intervalIdRef = IF remaining <= 0 THEN Null ELSE @]

\* The 2 s timer's callback.
graceCallback(st) ==
  [st EXCEPT !.relayStatuses =
     [i \in 1..Len(@) |-> [@[i] EXCEPT !.status = "connected"]]]

\* ------------------------------------------------------------------ actions
ClosingSubs == {s \in liveSubs : s.state = "closing"}

\* The start button (disabled while running), relay text without a wss:// entry.
StartNoRelays ==
  /\ mounted /\ ~isRunning
  /\ Len(parseRelays(relayInput)) = 0
  /\ Commit(startHarvesting(Session, relayInput, Null))
  /\ UNCHANGED <<relayInput, mounted, sentEvent>>

\* The start button, and subscribeMany returns.
StartOk ==
  /\ mounted /\ ~isRunning
  /\ Len(parseRelays(relayInput)) > 0
  /\ Len(graceTimers) < MaxGrace
  /\ Commit(startHarvesting(Session, relayInput, Null))
  /\ UNCHANGED <<relayInput, mounted, sentEvent>>

\* The start button, and subscribeMany throws.
StartThrows ==
  /\ mounted /\ ~isRunning
  /\ Len(parseRelays(relayInput)) > 0
  /\ \E t \in Thrown : Commit(startHarvesting(Session, relayInput, Some(t)))
  /\ UNCHANGED <<relayInput, mounted, sentEvent>>

\* The stop button (disabled unless running).
UserStop ==
  /\ mounted /\ isRunning
  /\ Commit(stopHarvesting(Session, relayInput))
  /\ UNCHANGED <<relayInput, mounted, sentEvent>>

\* The textarea (disabled while running).
EditRelays ==
  /\ mounted /\ ~isRunning
  /\ \E t \in RelayTexts \ {relayInput} : relayInput' = t
  /\ UNCHANGED <<isRunning, foundAddresses, relayStatuses, statusMessage,
                 timeRemaining, poolRef, addressSetRef, timeoutIdRef,
                 intervalIdRef, subIdRef, startTimeRef, mounted, graceTimers,
                 liveSubs, sentEvent>>

\* Events a subscription may hand over next.  processEvent looks at an address
\* only to compare it with the ones it holds, so the k-th distinct address of
\* a run is named Addr(k); a repeated address is the first or the latest one.
NextEvents ==
  DiscardedEvents \cup
    {JsonObject(StringValue(Addr(k))) :
       k \in {1, Cardinality(addressSetRef), Cardinality(addressSetRef) + 1}
                \cap 1..NumAddresses}

\* onevent: a subscription, open or closing, hands an event to processEvent.
\* Nothing in the component keeps the callback from running once
\* pool.close has been called: whether events already received still arrive
\* is the library's choice, so both outcomes are behaviours here (a closing
\* subscription may deliver, and SubDrained may end it at any time).
Deliver ==
  /\ \E sub \in liveSubs, event \in NextEvents :
       Commit(processEvent(Session, event, sub.input))
  /\ UNCHANGED <<relayInput, mounted, sentEvent>>

\* The one-shot timeout fires TIMEOUT_MS after the start that armed it.
TimeoutFire ==
  /\ timeoutIdRef # Null
  /\ timeoutIdRef[1].left = 0
  /\ Commit(timeoutCallback(Session, timeoutIdRef[1].input))
  /\ UNCHANGED <<relayInput, mounted, sentEvent>>

\* The repeating timer fires.
IntervalTick ==
  /\ intervalIdRef # Null
  /\ Commit(intervalCallback(Session))
  /\ UNCHANGED <<relayInput, mounted, sentEvent>>

\* The oldest 2 s timer fires; it is never cancelled.
GraceFire ==
  /\ Len(graceTimers) > 0
  /\ Head(graceTimers) = 0
  /\ Commit(graceCallback([Session EXCEPT !.graceTimers = Tail(@)]))
  /\ UNCHANGED <<relayInput, mounted, sentEvent>>

\* Time passes while a timer waits for it: every pending timer comes
\* ClockStep closer and the start timestamp grows ClockStep older.  The code
\* reads the timestamp's age only through Math.max(0, TIMEOUT_MS - elapsed),
\* so ages beyond TIMEOUT_MS are held as TIMEOUT_MS.
Advance ==
  /\ \/ timeoutIdRef # Null /\ timeoutIdRef[1].left > 0
     \/ \E i \in 1..Len(graceTimers) : graceTimers[i] > 0
  /\ timeoutIdRef' =
       IF timeoutIdRef = Null THEN Null
       ELSE Some([timeoutIdRef[1] EXCEPT !.left = Max(0, @ - ClockStep)])
  /\ graceTimers' = [i \in 1..Len(graceTimers) |->
                       Max(0, graceTimers[i] - ClockStep)]
  /\ startTimeRef' =
       IF startTimeRef = Null THEN Null
       ELSE Some(Min(startTimeRef[1] + ClockStep, TIMEOUT_MS))
  /\ UNCHANGED <<relayInput, isRunning, foundAddresses, relayStatuses,
                 statusMessage, timeRemaining, poolRef, addressSetRef,
                 intervalIdRef, subIdRef, mounted, liveSubs, sentEvent>>

\* A closing subscription has nothing left to hand over.
SubDrained ==
  /\ \E s \in ClosingSubs : liveSubs' = liveSubs \ {s}
  /\ UNCHANGED <<relayInput, isRunning, foundAddresses, relayStatuses,
                 statusMessage, timeRemaining, poolRef, addressSetRef,
                 timeoutIdRef, intervalIdRef, subIdRef, startTimeRef, mounted,
                 graceTimers, sentEvent>>

\* The isRunning the unmount cleanup sees: the effect has no dependencies, so
\* its closure is the first render's, where isRunning is useState(false).
CleanupIsRunning == FALSE

unmountCleanup(st, input) ==
  IF CleanupIsRunning THEN stopHarvesting(st, input) ELSE st

\* React unmounts the component and runs the effect's cleanup.
Unmount ==
  /\ mounted
  /\ mounted' = FALSE
  /\ Commit(unmountCleanup(Session, DEFAULT_RELAYS))
  /\ UNCHANGED <<relayInput, sentEvent>>

Next ==
  \/ StartNoRelays
  \/ StartOk
  \/ StartThrows
  \/ TimeoutFire
  \/ UserStop
  \/ EditRelays
  \/ Deliver
  \/ IntervalTick
  \/ GraceFire
  \/ Advance
  \/ SubDrained
  \/ Unmount

Spec == Init /\ [][Next]_vars

\* The browser runs a due timer, and time does not stop.
FairSpec == Spec /\ WF_vars(Advance) /\ WF_vars(TimeoutFire)

\* ------------------------------------------------------------------ one event
\* processEvent on one event, whatever its content: a relay has sent an event
\* on the subscription of a run that has just started, and onevent is called
\* with it.
Lud16Alphabet == {"a", "@", ".", " "}
Lud16Strings == UNION {[1..n -> Lud16Alphabet] : n \in 0..MaxLud16Len}
SentEvents ==
  DiscardedEvents \cup {JsonObject(StringValue(s)) : s \in Lud16Strings}

\* The session as useState and useRef create it.
FreshSession ==
  [isRunning |-> FALSE, foundAddresses |-> <<>>, relayStatuses |-> <<>>,
   statusMessage |-> ReadyMsg, timeRemaining |-> Null, poolRef |-> Null,
   addressSetRef |-> {}, timeoutIdRef |-> Null, intervalIdRef |-> Null,
   subIdRef |-> Null, startTimeRef |-> Null, graceTimers |-> <<>>,
   liveSubs |-> {}]

\* The session is st.
InState(st) ==
  /\ isRunning = st.isRunning
  /\ foundAddresses = st.foundAddresses
  /\ relayStatuses = st.relayStatuses
  /\ statusMessage = st.statusMessage
  /\ timeRemaining = st.timeRemaining
  /\ poolRef = st.poolRef
  /\ addressSetRef = st.addressSetRef
  /\ timeoutIdRef = st.timeoutIdRef
  /\ intervalIdRef = st.intervalIdRef
  /\ subIdRef = st.subIdRef
  /\ startTimeRef = st.startTimeRef
  /\ graceTimers = st.graceTimers
  /\ liveSubs = st.liveSubs

\* The first start, with the default relays, has returned and a relay has
\* sent an event.
Lud16Init ==
  /\ relayInput = DEFAULT_RELAYS
  /\ mounted = TRUE
  /\ InState(startHarvesting(FreshSession, DEFAULT_RELAYS, Null))
  /\ \E e \in SentEvents : sentEvent = Some([event |-> e, handled |-> FALSE])

\* onevent: the subscription hands the event it was sent to processEvent.
HandleSent ==
  /\ sentEvent # Null
  /\ ~sentEvent[1].handled
  /\ \E sub \in liveSubs :
       Commit(processEvent(Session, sentEvent[1].event, sub.input))
  /\ sentEvent' = Some([sentEvent[1] EXCEPT !.handled = TRUE])
  /\ UNCHANGED <<relayInput, mounted>>

Lud16Next == HandleSent

Lud16Spec == Lud16Init /\ [][Lud16Next]_vars

\* ------------------------------------------------------------------ one relay text
\* parseRelays on one text, whatever the user typed: the component is
\* rendered with the text in the textarea and the start button is pressed.
\* The texts are made of the prefix and of single characters: a letter, the
\* prefix's first letter, a blank and the two separators.
RelayAtoms == {WssPrefix, <<"a">>, <<"w">>, <<" ">>, <<"\n">>, <<",">>}
ScenarioA ==
  <<"w", "s", "s", ":", "/", "/", "a", ".", "e", "x", "a", "m", "p", "l", "e", "\n">>
     \o <<"w", "s", "s", ":", "/", "/", "b", ".", "e", "x", "a", "m", "p", "l", "e", ",">>
     \o <<"w", "s", "s", ":", "/", "/", "c", ".", "e", "x", "a", "m", "p", "l", "e">>
TypedRelays ==
  {Join(atoms, <<>>) :
     atoms \in UNION {[1..n -> RelayAtoms] : n \in 0..MaxRelayAtoms}}
    \cup {ScenarioA}

ParseInit ==
  /\ relayInput \in TypedRelays
  /\ mounted = TRUE
  /\ InState(FreshSession)
  /\ sentEvent = Null

ParseNext ==
  \/ StartNoRelays
  \/ StartOk
  \/ UserStop

ParseSpec == ParseInit /\ [][ParseNext]_vars

\* ------------------------------------------------------------------ steps
\* A processEvent call that inserts an address and, the goal reached, calls stop.
GoalReached ==
  /\ Deliver
  /\ addressSetRef' # addressSetRef
  /\ Cardinality(addressSetRef') >= MAX_ADDRESSES

OpenSubs(subs) == {s \in subs : s.state = "open"}

\* ------------------------------------------------------------------ claims

\* C1: in every reachable state the address set and the foundAddresses
\* sequence hold at most MAX_ADDRESSES addresses.
C1_AtMostMax ==
  /\ Cardinality(addressSetRef) <= MAX_ADDRESSES
  /\ Len(foundAddresses) <= MAX_ADDRESSES

\* C2: the processEvent call whose insertion brings the count to
\* MAX_ADDRESSES leaves the session not running, and from then on no
\* delivered event makes the count larger.
C2_StopsAtMax ==
  [][/\ (Deliver /\ Len(foundAddresses) < MAX_ADDRESSES
                 /\ Len(foundAddresses') >= MAX_ADDRESSES) => ~isRunning'
     /\ (Deliver /\ Len(foundAddresses) >= MAX_ADDRESSES)
          => Len(foundAddresses') <= Len(foundAddresses)]_vars

\* C3: foundAddresses never holds an address twice, whatever events arrive
\* again.
C3_NoDuplicates ==
  \A i, j \in 1..Len(foundAddresses) :
     i # j => foundAddresses[i] # foundAddresses[j]

\* C3's case: addresses are held and a subscription can deliver them again.
C3_Witness ==
  /\ Len(foundAddresses) >= 2
  /\ liveSubs # {}

\* C4: when the timeout fires on a running session that has not reached the
\* goal, the session ends not running, with the timeout status and no
\* remaining time.
C4_TimeoutStatus ==
  [][(TimeoutFire /\ isRunning /\ Len(foundAddresses) < MAX_ADDRESSES)
       => /\ ~isRunning'
          /\ statusMessage' = TimeoutMsg
          /\ timeRemaining' = Null]_vars

\* C5: a running session eventually stops running.
C5_RunTerminates == isRunning ~> ~isRunning

\* C5's case: a run that nothing ended before its timeout came due.
C5_Witness ==
  /\ isRunning
  /\ timeoutIdRef # Null
  /\ timeoutIdRef[1].left = 0

\* C6: a start whose relay text parses to no endpoint leaves the session not
\* running with the configuration error as status, opens no pool and no
\* subscription, and arms no timer.
C6_NoRelaysStart ==
  [][StartNoRelays
       => /\ ~isRunning'
          /\ statusMessage' = NoRelaysMsg
          /\ poolRef' = poolRef
          /\ subIdRef' = Null
          /\ OpenSubs(liveSubs') = {}
          /\ liveSubs' = liveSubs
          /\ timeoutIdRef' = Null
          /\ intervalIdRef' = Null
          /\ graceTimers' = graceTimers]_vars

\* C6's case: the state such a start leaves.
C6_Witness ==
  /\ statusMessage = NoRelaysMsg
  /\ ~isRunning
  /\ parseRelays(relayInput) = <<>>

\* C7: when subscribeMany throws, start ends with the session not running and
\* a status that holds the failure's description.
C7_ErrorStatus ==
  [][StartThrows
       => /\ ~isRunning'
          /\ \E t \in Thrown : statusMessage' = ErrorMsg(t)]_vars

\* C8: when subscribeMany throws, start ends with both timers cancelled, the
\* run's pool closed and poolRef null, and no start timestamp.
C8_ErrorCleanup ==
  [][StartThrows
       => /\ timeoutIdRef' = Null
          /\ intervalIdRef' = Null
          /\ poolRef' = Null
          /\ startTimeRef' = Null]_vars

C10_StopIsNoOp ==
  [][(GoalReached /\ ~isRunning)
       => UNCHANGED <<relayInput, isRunning, relayStatuses, statusMessage,
                      timeRemaining, poolRef, timeoutIdRef, intervalIdRef,
                      subIdRef, startTimeRef, graceTimers, liveSubs>>]_vars

\* C11: when the component is unmounted while the session is running, the
\* teardown calls stop: afterwards no subscription is open and neither the
\* timeout nor the repeating timer is armed.
C11_UnmountStops ==
  [][(Unmount /\ isRunning)
       => /\ OpenSubs(liveSubs') = {}
          /\ timeoutIdRef' = Null
          /\ intervalIdRef' = Null]_vars

\* The event onevent was called with, and whether processEvent took its
\* lud16 as a new address.
Handled == sentEvent # Null /\ sentEvent[1].handled
HandledLud16 == sentEvent[1].event.lud16
Accepted ==
  /\ sentEvent[1].event.json = "object"
  /\ HandledLud16.type = "string"
  /\ foundAddresses = <<HandledLud16.str>>
  /\ addressSetRef = {HandledLud16.str}

\* The parts of a string around its "@".
CountOf(s, c) == Cardinality({i \in 1..Len(s) : s[i] = c})
LocalPart(s) == SubSeq(s, 1, (CHOOSE i \in 1..Len(s) : s[i] = "@") - 1)
DomainPart(s) == SubSeq(s, (CHOOSE i \in 1..Len(s) : s[i] = "@") + 1, Len(s))
NoWhiteSpace(s) == \A i \in 1..Len(s) : s[i] \notin WhiteSpace

\* A string with exactly one "@", a non-empty local part, a domain part that
\* contains a "." and no whitespace.
DomainHasDot(v) ==
  /\ v.type = "string"
  /\ NoWhiteSpace(v.str)
  /\ CountOf(v.str, "@") = 1
  /\ Len(LocalPart(v.str)) > 0
  /\ CountOf(DomainPart(v.str), ".") >= 1

\* The same, the "." having a character of the domain part on each side.
DomainHasInnerDot(v) ==
  /\ v.type = "string"
  /\ NoWhiteSpace(v.str)
  /\ CountOf(v.str, "@") = 1
  /\ Len(LocalPart(v.str)) > 0
  /\ \E i \in 2..(Len(DomainPart(v.str)) - 1) : DomainPart(v.str)[i] = "."

\* C12 as stated: processEvent takes a lud16 value as an address exactly when
\* it is a string with exactly one "@", a non-empty local part, a domain part
\* containing at least one "." and no whitespace; every other value adds no
\* address.
C12_AcceptsDomainWithDot ==
  Handled =>
    /\ Accepted <=> (sentEvent[1].event.json = "object" /\ DomainHasDot(HandledLud16))
    /\ ~Accepted => foundAddresses = <<>> /\ addressSetRef = {}

\* C12, amended: processEvent takes a lud16 value as an address exactly when
\* it is a string with exactly one "@", a non-empty local part, no whitespace,
\* and a domain part in which some "." has at least one character before it
\* and at least one after it; every other value adds no address.
C12_AcceptsDomainWithInnerDot ==
  Handled =>
    /\ Accepted <=> (sentEvent[1].event.json = "object" /\ DomainHasInnerDot(HandledLud16))
    /\ ~Accepted => foundAddresses = <<>> /\ addressSetRef = {}

\* C12's case: a string of the longest length tried, its "." inside the
\* domain part, has been handled and taken as an address.
C12_Witness ==
  /\ Handled
  /\ Accepted
  /\ DomainHasInnerDot(HandledLud16)
  /\ Len(HandledLud16.str) = MaxLud16Len

\* The text read from left to right, one character at a time: the pieces
\* that newlines and commas separate (piece is the one being read).
RECURSIVE ScanPieces(_, _)
ScanPieces(text, piece) ==
  IF Len(text) = 0 THEN <<piece>>
  ELSE IF Head(text) \in {"\n", ","}
       THEN <<piece>> \o ScanPieces(Tail(text), <<>>)
       ELSE ScanPieces(Tail(text), Append(piece, Head(text)))

RECURSIVE StripLeft(_)
StripLeft(s) ==
  IF Len(s) > 0 /\ Head(s) \in WhiteSpace THEN StripLeft(Tail(s)) ELSE s

RECURSIVE StripRight(_)
StripRight(s) ==
  IF Len(s) > 0 /\ s[Len(s)] \in WhiteSpace
  THEN StripRight(SubSeq(s, 1, Len(s) - 1))
  ELSE s

IsWssToken(t) ==
  /\ Len(t) >= 6
  /\ t[1] = "w" /\ t[2] = "s" /\ t[3] = "s"
  /\ t[4] = ":" /\ t[5] = "/" /\ t[6] = "/"

\* The trimmed pieces that are non-empty and begin with wss://, in order.
WssTokens(text) ==
  LET pieces == ScanPieces(text, <<>>)
      tokens == [i \in 1..Len(pieces) |-> StripRight(StripLeft(pieces[i]))]
  IN SelectSeq(tokens, IsWssToken)

\* The endpoints a start shows, one status row per endpoint parseRelays returned.
Urls(statuses) == [i \in 1..Len(statuses) |-> statuses[i].url]

\* C13: for every text, parseRelays returns exactly the trimmed pieces
\* between newlines and commas that are non-empty and begin with wss://, in
\* order and with duplicates kept; every endpoint returned begins with
\* wss:// and has no whitespace at either end; the text of scenario A gives
\* its three endpoints.
C13_ParseRelays ==
  [][(StartOk \/ StartNoRelays)
       => LET got == Urls(relayStatuses')
          IN /\ got = WssTokens(relayInput)
             /\ got = parseRelays(relayInput)
             /\ \A i \in 1..Len(got) :
                  /\ IsWssToken(got[i])
                  /\ got[i][1] \notin WhiteSpace
                  /\ got[i][Len(got[i])] \notin WhiteSpace
             /\ relayInput = ScenarioA
                  => got = << <<"w", "s", "s", ":", "/", "/", "a", ".", "e", "x", "a", "m", "p", "l", "e">>,
                              <<"w", "s", "s", ":", "/", "/", "b", ".", "e", "x", "a", "m", "p", "l", "e">>,
                              <<"w", "s", "s", ":", "/", "/", "c", ".", "e", "x", "a", "m", "p", "l", "e">> >>]_vars

\* C13's case: a start has parsed a text that holds the same endpoint twice
\* and a blank.
C13_Witness ==
  /\ isRunning
  /\ Len(relayStatuses) = 2
  /\ relayStatuses[1].url = relayStatuses[2].url
  /\ \E i \in 1..Len(relayInput) : relayInput[i] = " "

\* An event processEvent has no address to take from: its content does not
\* parse to an object, or its lud16 is missing, not a string, or not of the
\* shape of an address.
NoAddressIn(event) ==
  \/ event.json # "object"
  \/ ~DomainHasInnerDot(event.lud16)

\* C14: an event whose content fails to parse, or whose lud16 is missing or
\* invalid, is discarded: processEvent returns, and the address set and
\* sequence, the running flag, the status, the timers and the subscription
\* are what they were.
C14_DiscardChangesNothing ==
  [][(HandleSent /\ NoAddressIn(sentEvent[1].event))
       => /\ sentEvent'[1].handled
          /\ UNCHANGED <<relayInput, isRunning, foundAddresses, relayStatuses,
                         statusMessage, timeRemaining, poolRef, addressSetRef,
                         timeoutIdRef, intervalIdRef, subIdRef, startTimeRef,
                         graceTimers, liveSubs>>]_vars

\* C14's case: onevent has returned from an event whose content did not
\* parse, and the run goes on.
C14_Witness ==
  /\ Handled
  /\ sentEvent[1].event.json = "error"
  /\ isRunning
  /\ subIdRef # Null

IsPrefix(s, t) == Len(s) <= Len(t) /\ SubSeq(t, 1, Len(s)) = s

\* C15: across every step in which the session stays running, the previous
\* foundAddresses is a prefix of the next: the count never decreases and no
\* address is removed or moved.
C15_GrowsInOrder ==
  [][(isRunning /\ isRunning') => IsPrefix(foundAddresses, foundAddresses')]_vars

\* C15's case: a running session that has taken several addresses, one after
\* the other.
C15_Witness ==
  /\ isRunning
  /\ Len(foundAddresses) >= 3
  /\ OpenSubs(liveSubs) # {}

\* C16: in every reachable state the address set and the foundAddresses
\* sequence hold exactly the same elements.
C16_SetIsSequence ==
  addressSetRef = {foundAddresses[i] : i \in 1..Len(foundAddresses)}

\* C16's case: addresses of an earlier run were cleared by a start that
\* failed, and events of that run's closing subscription came in after it.
C16_Witness ==
  /\ ~isRunning
  /\ statusMessage = NoRelaysMsg
  /\ Len(foundAddresses) >= 1

\* C17: in every reachable state a session that is not running has no start
\* timestamp.
C17_NoTimestampUnlessRunning == ~isRunning => startTimeRef = Null

\* The stop call of this step reaches poolRef.current.close(relays).
Closes == poolRef # Null /\ subIdRef # Null

\* The endpoint lists given to subscribeMany for the open subscriptions.
OpenedWith == {parseRelays(s.input) : s \in OpenSubs(liveSubs)}

\* This step is sub's onevent inserting the address that reaches the goal;
\* the stop it calls is the one of the render sub was opened in.
GoalReachedBy(sub) ==
  /\ addressSetRef' # addressSetRef
  /\ Cardinality(addressSetRef') >= MAX_ADDRESSES
  /\ \E event \in NextEvents :
       Commit(processEvent(Session, event, sub.input))
  /\ UNCHANGED <<relayInput, mounted, sentEvent>>

\* C18: whenever stop closes the pool, the endpoint list it passes to close
\* is the list that was passed to subscribeMany for the run's subscription,
\* whoever called stop: the stop button, the timeout, or an onevent reaching
\* the goal.
C18_CloseMatchesOpen ==
  [][Closes =>
       /\ UserStop => OpenedWith = {parseRelays(relayInput)}
       /\ TimeoutFire => OpenedWith = {parseRelays(timeoutIdRef[1].input)}
       /\ \A sub \in liveSubs :
            GoalReachedBy(sub) => OpenedWith = {parseRelays(sub.input)}]_vars

\* C19: the statuses a start initialised to connecting are switched to
\* connected only by the grace timer that start armed, never by the timer of
\* an earlier run: a grace timer that switches statuses is the only one
\* pending, none having been armed after it.
C19_OwnGraceTimer ==
  [][(GraceFire /\ relayStatuses' # relayStatuses)
       => Len(graceTimers) = 1]_vars

C21_StoppedIsQuiescent ==
  [][(/\ ~isRunning
      /\ statusMessage = StoppedMsg
      /\ (Deliver \/ TimeoutFire \/ IntervalTick \/ GraceFire))
       => UNCHANGED <<foundAddresses, isRunning, statusMessage, timeRemaining,
                      relayStatuses>>]_vars

====
